---- MODULE Spec2Model ----
(***************************************************************************)
(* Model of package dbresolver (pkg/dbresolver): the logical database      *)
(* handle DB over one read-write connection (rwdb) and an optional         *)
(* read-only connection (rodb).                                            *)
(*                                                                         *)
(* One caller drives one handle.  A call that runs goroutines (Open,       *)
(* Close, PingContext) is a sequence of steps, one per goroutine, closed   *)
(* by the join; every other call is sequential code and is one step.       *)
(* The physical connections (sql.DB) are the environment: each physical   *)
(* invocation succeeds or fails with one of DriverErrors, chosen freely.   *)
(***************************************************************************)
EXTENDS Integers, Sequences, FiniteSets, TLC

VARIABLES
    pc,       \* "start" | "Open" | "idle" | "PingContext" | "Close" | "Prepare" |
              \* "done" | "panic"
    db,       \* the handle: [rwdb, rodb, totalConnection]
    ctorErr,  \* the error the constructor returned with the handle
    call,     \* the call in progress / last completed: [name, query, args]
    trace,    \* physical invocations made by that call, in order
    pending,  \* goroutine indexes spawned by that call and not yet finished
    perr,     \* doParallely: the first non-nil error a closure returned
    errRWDB,  \* PingContext local
    errRODB,  \* PingContext local
    ret,      \* what the call returned: [val, err, db]
    stmt,     \* Prepare: the statement under construction: [rwstmt, rostmt]
    afterFallback  \* history: the caller's previous call was a read that fell back

vars == <<pc, db, ctorErr, call, trace, pending, perr, errRWDB, errRODB, ret, stmt,
          afterFallback>>

----------------------------------------------------------------------------
(* Bounds *)

\* longest dataSourceNames string given to Open
MaxDsnLen == 4

----------------------------------------------------------------------------
(* Values *)

\* a physical connection (an sql.DB): the index of the DSN it was opened from
\* (10, 11 for connections the caller opened and wraps) and that DSN
NilDB == [idx |-> -1, dsn |-> ""]

\* the nil error
NoErr == [nil |-> TRUE, pq |-> FALSE, code |-> "", text |-> "", at |-> 0]

PlainErr(text) == [nil |-> FALSE, pq |-> FALSE, code |-> "", text |-> text, at |-> 0]

\* *pq.Error with its SQLSTATE code
PqErr(code, text) == [nil |-> FALSE, pq |-> TRUE, code |-> code, text |-> text, at |-> 0]

\* err.Error(): pq.Error prints "pq: " before its message
ErrorString(err) == IF err.pq THEN "pq: " \o err.text ELSE err.text

\* strings.Contains
Contains(s, substr) ==
    \E i \in 1..(Len(s) - Len(substr) + 1) : SubSeq(s, i, i + Len(substr) - 1) = substr

\* ArrayContainsStr
ArrayContainsStr(arr, val) == \E k \in 1..Len(arr) : arr[k] = val

\* the code list without the insufficient-resources class
ConnectionErrorCodesNoResources ==
    <<"08000", "08003", "08006", "08001", "08004", "08007", "08P01",
      "57P01", "57P02", "57P03">>

ConnectionErrorCodes ==
    <<"08000", "08003", "08006", "08001", "08004", "08007", "08P01",
      "57P01", "57P02", "57P03",
      "53000", "53100", "53200", "53300", "53400">>

\* isConnectionError without the check of the pq error code
isConnectionErrorTextOnly(err) ==
    IF err.nil THEN FALSE
    ELSE \/ Contains(ErrorString(err), "connection reset by peer")
         \/ Contains(ErrorString(err), "connection refused")
         \/ Contains(ErrorString(err), "timed out")
         \/ Contains(ErrorString(err), "timeout")
         \/ Contains(ErrorString(err), "starting up")
         \/ Contains(ErrorString(err), "EOF")

\* isConnectionError taking every non-nil error for a connection failure
isConnectionErrorAnyError(err) == ~err.nil

isConnectionError(err) ==
    IF err.nil THEN FALSE
    ELSE IF \/ Contains(ErrorString(err), "connection reset by peer")
            \/ Contains(ErrorString(err), "connection refused")
            \/ Contains(ErrorString(err), "timed out")
            \/ Contains(ErrorString(err), "timeout")
            \/ Contains(ErrorString(err), "starting up")
            \/ Contains(ErrorString(err), "EOF")
         THEN TRUE
    ELSE IF ~err.pq THEN FALSE
    ELSE ArrayContainsStr(ConnectionErrorCodes, err.code)

\* the failures the driver answers a physical invocation with
DriverErrors ==
    { PlainErr("dial tcp 127.0.0.1:5432: connect: connection refused"),
      PqErr("57P01", "terminating connection due to administrator command"),
      PlainErr("sql: no rows in result set"),
      PqErr("42601", "syntax error at end of input") }

Outcomes == {NoErr} \cup DriverErrors

\* the queries and placeholder arguments the caller issues
Queries == {"SELECT * FROM accounts", "SELECT 1"}

ArgLists == {<<>>, <<1>>}

\* one physical invocation, as the connection observes it
Invocation(on, method, query, args, err) ==
    [on |-> on, method |-> method, query |-> query, args |-> args, err |-> err]

\* a call's return values: the result object (the position in trace of the
\* physical invocation that produced it, 0 for nil), the error, and for the
\* accessors the connection
Return(val, err, conn) == [val |-> val, err |-> err, db |-> conn]

NoReturn == Return(0, NoErr, NilDB)

NoCall == [name |-> "", query |-> "", args |-> <<>>]

\* a statement with neither side prepared (0 is the nil *sql.Stmt, k the
\* statement the k-th physical invocation prepared)
NoStmt == [rwstmt |-> 0, rostmt |-> 0]

\* the zero DB value
ZeroDB == [rwdb |-> NilDB, rodb |-> NilDB, totalConnection |-> 0]

----------------------------------------------------------------------------
(* doParallely(n, fn): runs fn(0) .. fn(n-1) in goroutines, joins them and *)
(* returns the first non-nil error encountered.                            *)

doParallelyStart(n) == 0..(n - 1)

doParallelyCollect(first, err) == IF first.nil THEN err ELSE first

\* doParallely returning without waiting for its goroutines
doParallelyJoinedEarly(left) == TRUE

doParallelyJoined(left) == left = {}

----------------------------------------------------------------------------
(* Open *)

\* the characters of a dataSourceNames string: two DSN characters and the
\* separator
DsnChars == {"a", "b", ";"}

RECURSIVE StringsUpTo(_)
StringsUpTo(n) ==
    IF n = 0 THEN {""}
    ELSE LET S == StringsUpTo(n - 1) IN S \cup {c \o s : c \in DsnChars, s \in S}

DataSourceNames == StringsUpTo(MaxDsnLen)

\* strings.Split(s, sep) for a one-character sep
RECURSIVE Split(_, _)
Split(s, sep) ==
    IF \E i \in 1..Len(s) : SubSeq(s, i, i) = sep
    THEN LET i == CHOOSE j \in 1..Len(s) :
                    /\ SubSeq(s, j, j) = sep
                    /\ \A k \in 1..(j - 1) : SubSeq(s, k, k) # sep
         IN  <<SubSeq(s, 1, i - 1)>> \o Split(SubSeq(s, i + 1, Len(s)), sep)
    ELSE <<s>>

\* totalConnection without the cap at 2
OpenTotalConnectionUncapped(conns) == Len(conns)

\* db.totalConnection as Open sets it
OpenTotalConnection(conns) == IF Len(conns) > 2 THEN 2 ELSE Len(conns)

\* sql.Open(driverName, dsn): the connection, or nil and the driver's error
sqlOpen(dsn, i, ok, at) ==
    IF ok THEN [db |-> [idx |-> i, dsn |-> dsn], err |-> NoErr]
    ELSE [db |-> NilDB, err |-> [PlainErr("invalid dsn") EXCEPT !.at = at]]

\* the closure Open hands to doParallely: which field slot i assigns
OpenAssign(d, i, conn) ==
    IF i = 0 THEN [d EXCEPT !.rwdb = conn] ELSE [d EXCEPT !.rodb = conn]

\* which DSN slot i opens
OpenDsn(conns, i) == conns[i + 1]

OpenCall(dataSourceNames) ==
    /\ pc = "start"
    /\ LET conns == Split(dataSourceNames, ";") IN
         /\ db' = [ZeroDB EXCEPT !.totalConnection = OpenTotalConnection(conns)]
         /\ pending' = doParallelyStart(OpenTotalConnection(conns))
    /\ call' = [name |-> "Open", query |-> dataSourceNames, args |-> <<>>]
    /\ pc' = "Open"
    /\ trace' = <<>>
    /\ perr' = NoErr
    /\ ret' = NoReturn
    /\ UNCHANGED <<ctorErr, errRWDB, errRODB, stmt, afterFallback>>

OpenWorker(i) ==
    /\ pc = "Open"
    /\ i \in pending
    /\ \E ok \in BOOLEAN :
         LET dsn == OpenDsn(Split(call.query, ";"), i)
             r   == sqlOpen(dsn, i, ok, Len(trace) + 1)
         IN  /\ db' = OpenAssign(db, i, r.db)
             /\ trace' = Append(trace,
                    Invocation([idx |-> i, dsn |-> dsn], "sql.Open", dsn, <<>>, r.err))
             /\ perr' = doParallelyCollect(perr, r.err)
    /\ pending' = pending \ {i}
    /\ UNCHANGED <<pc, ctorErr, call, errRWDB, errRODB, ret, stmt, afterFallback>>

OpenReturn ==
    /\ pc = "Open"
    /\ doParallelyJoined(pending)
    /\ ctorErr' = perr
    /\ ret' = Return(0, perr, NilDB)
    /\ pc' = "done"
    /\ UNCHANGED <<db, call, trace, pending, perr, errRWDB, errRODB, stmt, afterFallback>>

----------------------------------------------------------------------------
(* WrapDatabaseConnection *)

\* connections the caller opened itself: one for each role
WrapRW == [idx |-> 10, dsn |-> "rw"]

WrapRO == [idx |-> 11, dsn |-> "ro"]

\* totalConnection not counting the replica
WrapTotalConnectionOne(roDB) == 1

WrapTotalConnection(roDB) == IF roDB # NilDB THEN 2 ELSE 1

WrapDatabaseConnection(rwDB, roDB) ==
    /\ pc = "start"
    /\ call' = [name |-> "WrapDatabaseConnection", query |-> "", args |-> <<rwDB, roDB>>]
    /\ IF rwDB = NilDB
       THEN /\ pc' = "panic"
            /\ UNCHANGED db
       ELSE /\ pc' = "done"
            /\ db' = [rwdb |-> rwDB, rodb |-> roDB,
                      totalConnection |-> WrapTotalConnection(roDB)]
    /\ trace' = <<>>
    /\ ret' = NoReturn
    /\ UNCHANGED <<ctorErr, pending, perr, errRWDB, errRODB, stmt, afterFallback>>

----------------------------------------------------------------------------
(* Routing *)

\* ReadOnly staying on the primary once a read has fallen back
ReadOnlyStickyFallback(d) == IF d.rodb = NilDB \/ afterFallback THEN d.rwdb ELSE d.rodb

\* ReadOnly returns the ReadOnly database
ReadOnly(d) == IF d.rodb = NilDB THEN d.rwdb ELSE d.rodb

\* ReadWrite answering with the read target
ReadWriteIsReadOnly(d) == ReadOnly(d)

\* ReadWrite returns the main writer physical database
ReadWrite(d) == d.rwdb

\* the error object of the k-th physical invocation of a call
Stamp(outcome, k) == IF outcome.nil THEN outcome ELSE [outcome EXCEPT !.at = k]

Physical(on, method, query, args, outcome, k) ==
    Invocation(on, method, query, args, Stamp(outcome, k))

\* a method called on a nil *sql.DB, or WrapDatabaseConnection's panic
Panic ==
    /\ pc' = "panic"
    /\ ret' = NoReturn

ReadNames == {"Query", "QueryContext", "QueryRow", "QueryRowContext"}

RowNames == {"QueryRow", "QueryRowContext"}

WriteNames == {"Exec", "ExecContext", "Begin", "BeginTx"}

\* QueryRow returning a nil row on error, as Query returns nil rows
ReadResultRowsOnly(name, k, err) == Return(IF err.nil THEN k ELSE 0, err, NilDB)

\* what a read returns from the k-th physical invocation: Query returns
\* (rows, err) with nil rows on error; QueryRow returns the row, which
\* carries its error
ReadResult(name, k, err) ==
    IF name \in RowNames THEN Return(k, err, NilDB)
    ELSE Return(IF err.nil THEN k ELSE 0, err, NilDB)

\* a read that falls back again when the fallback fails with a connection
\* error
ReadCallRetryAgain(name, query, args) ==
    /\ pc = "idle"
    /\ call' = [name |-> name, query |-> query, args |-> args]
    /\ \E o1 \in Outcomes, o2 \in Outcomes, o3 \in Outcomes :
         LET first  == Physical(ReadOnly(db), name, query, args, o1, 1)
             second == Physical(ReadWrite(db), name, query, args, o2, 2)
             third  == Physical(ReadWrite(db), name, query, args, o3, 3)
         IN  IF ~isConnectionError(first.err)
             THEN /\ trace' = <<first>>
                  /\ ret' = ReadResult(name, 1, first.err)
             ELSE IF ~isConnectionError(second.err)
             THEN /\ trace' = <<first, second>>
                  /\ ret' = ReadResult(name, 2, second.err)
             ELSE /\ trace' = <<first, second, third>>
                  /\ ret' = ReadResult(name, 3, third.err)
    /\ pc' = IF ReadWrite(db) = NilDB THEN "panic" ELSE "done"
    /\ UNCHANGED <<db, ctorErr, pending, perr, errRWDB, errRODB, stmt, afterFallback>>

\* Query, QueryContext, QueryRow, QueryRowContext
ReadCall(name, query, args) ==
    /\ pc = "idle"
    /\ call' = [name |-> name, query |-> query, args |-> args]
    /\ \E o1 \in Outcomes, o2 \in Outcomes :
         LET first  == Physical(ReadOnly(db), name, query, args, o1, 1)
             second == Physical(ReadWrite(db), name, query, args, o2, 2)
         IN  IF ReadOnly(db) = NilDB
             THEN /\ trace' = <<>>
                  /\ Panic
             ELSE IF isConnectionError(first.err)
             THEN IF ReadWrite(db) = NilDB
                  THEN /\ trace' = <<first>>
                       /\ Panic
                  ELSE /\ trace' = <<first, second>>
                       /\ ret' = ReadResult(name, 2, second.err)
                       /\ pc' = "done"
             ELSE /\ trace' = <<first>>
                  /\ ret' = ReadResult(name, 1, first.err)
                  /\ pc' = "done"
    /\ UNCHANGED <<db, ctorErr, pending, perr, errRWDB, errRODB, stmt, afterFallback>>

Query(query, args) == ReadCall("Query", query, args)

QueryContext(query, args) == ReadCall("QueryContext", query, args)

QueryRow(query, args) == ReadCall("QueryRow", query, args)

QueryRowContext(query, args) == ReadCall("QueryRowContext", query, args)

\* Exec, ExecContext, Begin, BeginTx
WriteCall(name, query, args) ==
    /\ pc = "idle"
    /\ call' = [name |-> name, query |-> query, args |-> args]
    /\ \E o \in Outcomes :
         LET only == Physical(ReadWrite(db), name, query, args, o, 1)
         IN  IF ReadWrite(db) = NilDB
             THEN /\ trace' = <<>>
                  /\ Panic
             ELSE /\ trace' = <<only>>
                  /\ ret' = Return(IF only.err.nil THEN 1 ELSE 0, only.err, NilDB)
                  /\ pc' = "done"
    /\ UNCHANGED <<db, ctorErr, pending, perr, errRWDB, errRODB, stmt, afterFallback>>

Exec(query, args) == WriteCall("Exec", query, args)

ExecContext(query, args) == WriteCall("ExecContext", query, args)

Begin == WriteCall("Begin", "", <<>>)

BeginTx == WriteCall("BeginTx", "", <<>>)

\* the accessors
GetReadOnly ==
    /\ pc = "idle"
    /\ call' = [name |-> "ReadOnly", query |-> "", args |-> <<>>]
    /\ trace' = <<>>
    /\ ret' = Return(0, NoErr, ReadOnly(db))
    /\ pc' = "done"
    /\ UNCHANGED <<db, ctorErr, pending, perr, errRWDB, errRODB, stmt, afterFallback>>

GetReadWrite ==
    /\ pc = "idle"
    /\ call' = [name |-> "ReadWrite", query |-> "", args |-> <<>>]
    /\ trace' = <<>>
    /\ ret' = Return(0, NoErr, ReadWrite(db))
    /\ pc' = "done"
    /\ UNCHANGED <<db, ctorErr, pending, perr, errRWDB, errRODB, stmt, afterFallback>>

----------------------------------------------------------------------------
(* Ping, PingContext *)

Ping ==
    /\ pc = "idle"
    /\ call' = [name |-> "Ping", query |-> "", args |-> <<>>]
    /\ \E o1 \in Outcomes, o2 \in Outcomes :
         LET first  == Physical(db.rwdb, "Ping", "", <<>>, o1, 1)
             second == Physical(db.rodb, "Ping", "", <<>>, o2, 2)
         IN  IF db.rwdb = NilDB
             THEN /\ trace' = <<>>
                  /\ Panic
             ELSE IF ~first.err.nil
             THEN /\ trace' = <<first>>
                  /\ ret' = Return(0, first.err, NilDB)
                  /\ pc' = "done"
             ELSE IF db.rodb # NilDB
             THEN /\ trace' = <<first, second>>
                  /\ ret' = Return(0, second.err, NilDB)
                  /\ pc' = "done"
             ELSE /\ trace' = <<first>>
                  /\ ret' = Return(0, NoErr, NilDB)
                  /\ pc' = "done"
    /\ UNCHANGED <<db, ctorErr, pending, perr, errRWDB, errRODB, stmt, afterFallback>>

\* PingContext starting the replica's ping without the nil check
PingContextSpawnBoth(d) == {0, 1}

\* the goroutines PingContext starts: 0 pings rwdb, 1 pings rodb
PingContextSpawn(d) == IF d.rodb # NilDB THEN {0, 1} ELSE {0}

\* PingContext failing as soon as one of the two pings failed
PingContextResultEither(eRW, eRO) == IF ~eRW.nil THEN eRW ELSE eRO

\* PingContext's return value once both goroutines are joined
PingContextResult(eRW, eRO) == IF ~eRW.nil /\ ~eRO.nil THEN eRW ELSE NoErr

PingContextCall ==
    /\ pc = "idle"
    /\ call' = [name |-> "PingContext", query |-> "", args |-> <<>>]
    /\ pc' = "PingContext"
    /\ trace' = <<>>
    /\ ret' = NoReturn
    /\ errRWDB' = NoErr
    /\ errRODB' = NoErr
    /\ pending' = PingContextSpawn(db)
    /\ UNCHANGED <<db, ctorErr, perr, stmt, afterFallback>>

PingContextRW ==
    /\ pc = "PingContext"
    /\ 0 \in pending
    /\ IF db.rwdb = NilDB
       THEN /\ Panic
            /\ UNCHANGED <<trace, errRWDB, pending>>
       ELSE /\ \E o \in Outcomes :
                 LET p == Physical(db.rwdb, "PingContext", "", <<>>, o, Len(trace) + 1)
                 IN  /\ trace' = Append(trace, p)
                     /\ errRWDB' = p.err
            /\ pending' = pending \ {0}
            /\ UNCHANGED <<pc, ret>>
    /\ UNCHANGED <<db, ctorErr, call, perr, errRODB, stmt, afterFallback>>

PingContextRO ==
    /\ pc = "PingContext"
    /\ 1 \in pending
    /\ \E o \in Outcomes :
         LET p == Physical(db.rodb, "PingContext", "", <<>>, o, Len(trace) + 1)
         IN  /\ trace' = Append(trace, p)
             /\ errRODB' = p.err
    /\ pending' = pending \ {1}
    /\ UNCHANGED <<pc, db, ctorErr, call, perr, errRWDB, ret, stmt, afterFallback>>

\* PingContext without wg.Wait()
PingContextJoinedNoWait(left) == TRUE

\* wg.Wait(): every goroutine started has called wg.Done()
PingContextJoined(left) == left = {}

PingContextReturn ==
    /\ pc = "PingContext"
    /\ PingContextJoined(pending)
    /\ ret' = Return(0, PingContextResult(errRWDB, errRODB), NilDB)
    /\ pc' = "done"
    /\ UNCHANGED <<db, ctorErr, call, trace, pending, perr, errRWDB, errRODB, stmt, afterFallback>>

----------------------------------------------------------------------------
(* Close *)

\* Close closing rwdb in every slot
CloseTargetPrimaryOnly(d, i) == d.rwdb

\* the closure Close hands to doParallely: the connection slot i closes
CloseTarget(d, i) == IF i = 0 THEN d.rwdb ELSE d.rodb

CloseCall ==
    /\ pc = "idle"
    /\ call' = [name |-> "Close", query |-> "", args |-> <<>>]
    /\ pc' = "Close"
    /\ trace' = <<>>
    /\ ret' = NoReturn
    /\ perr' = NoErr
    /\ pending' = doParallelyStart(db.totalConnection)
    /\ UNCHANGED <<db, ctorErr, errRWDB, errRODB, stmt, afterFallback>>

CloseWorker(i) ==
    /\ pc = "Close"
    /\ i \in pending
    /\ IF CloseTarget(db, i) = NilDB
       THEN /\ Panic
            /\ UNCHANGED <<trace, perr, pending>>
       ELSE /\ \E o \in Outcomes :
                 LET p == Physical(CloseTarget(db, i), "Close", "", <<>>, o, Len(trace) + 1)
                 IN  /\ trace' = Append(trace, p)
                     /\ perr' = doParallelyCollect(perr, p.err)
            /\ pending' = pending \ {i}
            /\ UNCHANGED <<pc, ret>>
    /\ UNCHANGED <<db, ctorErr, call, errRWDB, errRODB, stmt, afterFallback>>

CloseReturn ==
    /\ pc = "Close"
    /\ doParallelyJoined(pending)
    /\ ret' = Return(0, perr, NilDB)
    /\ pc' = "done"
    /\ UNCHANGED <<db, ctorErr, call, trace, pending, perr, errRWDB, errRODB, stmt, afterFallback>>

----------------------------------------------------------------------------
(* Prepare, PrepareContext *)

PrepareNames == {"Prepare", "PrepareContext"}

\* what Prepare returns once doParallely returned err: (nil, err), or the
\* statement (val = 1) and no error
PrepareResultAlwaysStmt(err) == Return(1, err, NilDB)

PrepareResult(err) == IF ~err.nil THEN Return(0, err, NilDB) ELSE Return(1, NoErr, NilDB)

\* Prepare, PrepareContext up to the call of doParallely
PrepareCall(name, query) ==
    /\ pc = "idle"
    /\ call' = [name |-> name, query |-> query, args |-> <<>>]
    /\ pc' = "Prepare"
    /\ trace' = <<>>
    /\ ret' = NoReturn
    /\ perr' = NoErr
    /\ stmt' = NoStmt
    /\ pending' = doParallelyStart(db.totalConnection)
    /\ UNCHANGED <<db, ctorErr, errRWDB, errRODB, afterFallback>>

Prepare(query) == PrepareCall("Prepare", query)

PrepareContext(query) == PrepareCall("PrepareContext", query)

\* the closure Prepare hands to doParallely
PrepareWorker(i) ==
    /\ pc = "Prepare"
    /\ i \in pending
    /\ IF i = 0
       THEN IF db.rwdb = NilDB
            THEN /\ Panic
                 /\ UNCHANGED <<trace, perr, pending, stmt>>
            ELSE /\ \E o \in Outcomes :
                      LET p == Physical(db.rwdb, call.name, call.query, <<>>, o,
                                        Len(trace) + 1)
                      IN  /\ trace' = Append(trace, p)
                          /\ stmt' = [stmt EXCEPT
                                 !.rwstmt = IF p.err.nil THEN Len(trace) + 1 ELSE 0]
                          /\ perr' = doParallelyCollect(perr, p.err)
                 /\ pending' = pending \ {i}
                 /\ UNCHANGED <<pc, ret>>
       ELSE IF db.rodb # NilDB
            THEN /\ \E o \in Outcomes :
                      LET p == Physical(db.rodb, call.name, call.query, <<>>, o,
                                        Len(trace) + 1)
                      IN  /\ trace' = Append(trace, p)
                          /\ stmt' = [stmt EXCEPT
                                 !.rostmt = IF p.err.nil THEN Len(trace) + 1 ELSE 0]
                          /\ perr' = doParallelyCollect(perr, p.err)
                 /\ pending' = pending \ {i}
                 /\ UNCHANGED <<pc, ret>>
            ELSE /\ pending' = pending \ {i}
                 /\ UNCHANGED <<pc, ret, trace, perr, stmt>>
    /\ UNCHANGED <<db, ctorErr, call, errRWDB, errRODB, afterFallback>>

PrepareReturn ==
    /\ pc = "Prepare"
    /\ doParallelyJoined(pending)
    /\ ret' = PrepareResult(perr)
    /\ pc' = "done"
    /\ UNCHANGED <<db, ctorErr, call, trace, pending, perr, errRWDB, errRODB, stmt,
                   afterFallback>>

----------------------------------------------------------------------------
(* SetMaxIdleConns, SetMaxOpenConns, SetConnMaxLifetime *)

SetterNames == {"SetMaxIdleConns", "SetMaxOpenConns", "SetConnMaxLifetime"}

\* the limits a caller sets
SetterArgs == {0, 10}

SetterCall(name, n) ==
    /\ pc = "idle"
    /\ call' = [name |-> name, query |-> "", args |-> <<n>>]
    /\ LET first  == Physical(db.rwdb, name, "", <<n>>, NoErr, 1)
           second == Physical(db.rodb, name, "", <<n>>, NoErr, 2)
       IN  IF db.rwdb = NilDB
           THEN /\ trace' = <<>>
                /\ Panic
           ELSE /\ trace' = IF db.rodb # NilDB THEN <<first, second>> ELSE <<first>>
                /\ ret' = NoReturn
                /\ pc' = "done"
    /\ UNCHANGED <<db, ctorErr, pending, perr, errRWDB, errRODB, stmt, afterFallback>>

SetMaxIdleConns(n) == SetterCall("SetMaxIdleConns", n)

SetMaxOpenConns(n) == SetterCall("SetMaxOpenConns", n)

SetConnMaxLifetime(n) == SetterCall("SetConnMaxLifetime", n)

----------------------------------------------------------------------------
(* The caller *)

\* the caller takes the return values and is ready for its next call
CallerResumes ==
    /\ pc = "done"
    /\ pc' = "idle"
    /\ call' = NoCall
    /\ trace' = <<>>
    /\ ret' = NoReturn
    /\ perr' = NoErr
    /\ errRWDB' = NoErr
    /\ errRODB' = NoErr
    /\ stmt' = NoStmt
    /\ afterFallback' = (call.name \in ReadNames /\ Len(trace) = 2)
    /\ UNCHANGED <<db, ctorErr, pending>>

Init ==
    /\ pc = "start"
    /\ db = ZeroDB
    /\ ctorErr = NoErr
    /\ call = NoCall
    /\ trace = <<>>
    /\ pending = {}
    /\ perr = NoErr
    /\ errRWDB = NoErr
    /\ errRODB = NoErr
    /\ ret = NoReturn
    /\ stmt = NoStmt
    /\ afterFallback = FALSE

Next ==
    \/ \E dataSourceNames \in DataSourceNames : OpenCall(dataSourceNames)
    \/ \E i \in 0..MaxDsnLen : OpenWorker(i)
    \/ OpenReturn
    \/ \E rwDB \in {WrapRW, NilDB}, roDB \in {WrapRO, NilDB} :
          WrapDatabaseConnection(rwDB, roDB)
    \/ \E query \in Queries, args \in ArgLists : Query(query, args)
    \/ \E query \in Queries, args \in ArgLists : QueryContext(query, args)
    \/ \E query \in Queries, args \in ArgLists : QueryRow(query, args)
    \/ \E query \in Queries, args \in ArgLists : QueryRowContext(query, args)
    \/ \E query \in Queries, args \in ArgLists : Exec(query, args)
    \/ \E query \in Queries, args \in ArgLists : ExecContext(query, args)
    \/ Begin
    \/ BeginTx
    \/ GetReadOnly
    \/ GetReadWrite
    \/ Ping
    \/ PingContextCall
    \/ PingContextRW
    \/ PingContextRO
    \/ PingContextReturn
    \/ CloseCall
    \/ \E i \in 0..MaxDsnLen : CloseWorker(i)
    \/ CloseReturn
    \/ \E query \in Queries : Prepare(query)
    \/ \E query \in Queries : PrepareContext(query)
    \/ \E i \in 0..MaxDsnLen : PrepareWorker(i)
    \/ PrepareReturn
    \/ \E n \in SetterArgs : SetMaxIdleConns(n)
    \/ \E n \in SetterArgs : SetMaxOpenConns(n)
    \/ \E n \in SetterArgs : SetConnMaxLifetime(n)
    \/ CallerResumes

Spec == Init /\ [][Next]_vars

----------------------------------------------------------------------------
(* isConnectionError on its own: the error is drawn from ErrorSamples and *)
(* classified in one step.                                                *)

SampleTexts ==
    { pre \o mid \o post :
        pre  \in {"", "read tcp 10.0.0.7:5432: "},
        mid  \in {"connection reset by peer", "connection refused", "timed out",
                  "timeout", "starting up", "EOF",
                  "sql: no rows in result set", "syntax error at or near",
                  "duplicate key value violates unique constraint",
                  "context canceled", "context deadline exceeded",
                  "eof", "time out", "connection reset", "Timeout", ""},
        post \in {"", "s"} }

SampleCodes ==
    {"08000", "08003", "08006", "08001", "08004", "08007", "08P01",
     "57P01", "57P02", "57P03", "53000", "53100", "53200", "53300", "53400",
     "42601", "23505", "23503", "02000", "57014", "08002", "53500", "08P02", ""}

SamplePqTexts ==
    {"sorry, too many clients already", "syntax error at end of input",
     "canceling statement due to statement timeout",
     "duplicate key value violates unique constraint"}

ErrorSamples ==
    {NoErr} \cup {PlainErr(t) : t \in SampleTexts}
            \cup {PqErr(c, t) : c \in SampleCodes, t \in SamplePqTexts}

ClassifyInit ==
    /\ pc = "classify"
    /\ perr \in ErrorSamples
    /\ db = ZeroDB
    /\ ctorErr = NoErr
    /\ call = NoCall
    /\ trace = <<>>
    /\ pending = {}
    /\ errRWDB = NoErr
    /\ errRODB = NoErr
    /\ ret = NoReturn
    /\ stmt = NoStmt
    /\ afterFallback = FALSE

\* db.isConnectionError(perr); ret.val is 1 for true, 0 for false
Classify ==
    /\ pc = "classify"
    /\ pc' = "classified"
    /\ ret' = Return(IF isConnectionError(perr) THEN 1 ELSE 0, perr, NilDB)
    /\ UNCHANGED <<db, ctorErr, call, trace, pending, perr, errRWDB, errRODB, stmt,
                   afterFallback>>

ClassifyNext == Classify

ClassifySpec == ClassifyInit /\ [][ClassifyNext]_vars

----------------------------------------------------------------------------
(* Properties *)

\* the call named by one of names has returned
Returned(names) == pc = "done" /\ call.name \in names

\* the handle came out of a construction that reported no error
Constructed == pc \notin {"start", "Open"} /\ ctorErr.nil /\ db.rwdb # NilDB

HasReplica == db.rodb # NilDB

\* the k-th physical invocation carries the call's own method, query and
\* arguments
SameCall(k) ==
    /\ trace[k].method = call.name
    /\ trace[k].query = call.query
    /\ trace[k].args = call.args

\* what the call hands back when it returns the k-th invocation's result
ReturnsResultOf(k) ==
    /\ ret.err = trace[k].err
    /\ ret.val = (IF trace[k].err.nil \/ call.name \in RowNames THEN k ELSE 0)

\* a connection-level failure as section 4.1 of the specification lists them
FailureTexts ==
    {"connection reset by peer", "connection refused", "timed out", "timeout",
     "starting up", "EOF"}

FailureCodes ==
    {"08000", "08003", "08006", "08001", "08004", "08007", "08P01",
     "57P01", "57P02", "57P03", "53000", "53100", "53200", "53300", "53400"}

ConnectionLevelFailure(err) ==
    /\ ~err.nil
    /\ \/ \E t \in FailureTexts : Contains(ErrorString(err), t)
       \/ err.pq /\ err.code \in FailureCodes

\* the indexes of the physical invocations that failed
Failed == {k \in 1..Len(trace) : ~trace[k].err.nil}

\* C1: a read on a handle with a replica whose replica attempt fails with a
\* connection-level failure invokes the primary exactly once more, with the
\* same query and arguments, and returns the primary's result.
C1_ReadFallsBackToPrimary ==
    (Returned(ReadNames) /\ Constructed /\ HasReplica) =>
        /\ Len(trace) >= 1
        /\ trace[1].on = db.rodb
        /\ SameCall(1)
        /\ ConnectionLevelFailure(trace[1].err) =>
              /\ Len(trace) = 2
              /\ trace[2].on = db.rwdb
              /\ SameCall(2)
              /\ ReturnsResultOf(2)

C1_Witness ==
    /\ Returned(ReadNames)
    /\ Constructed
    /\ db.rodb.idx = 1
    /\ call.query = "SELECT * FROM accounts"
    /\ Len(trace) = 2
    /\ Contains(ErrorString(trace[1].err), "connection refused")
    /\ trace[2].on = db.rwdb
    /\ trace[2].err.nil
    /\ ret.val = 2

\* C2: a read on a handle with a replica whose replica attempt fails with an
\* error that is not a connection-level failure returns exactly that error
\* and never invokes the primary.
C2_ReadReturnsReplicaError ==
    (Returned(ReadNames) /\ Constructed /\ HasReplica) =>
        /\ Len(trace) >= 1
        /\ trace[1].on = db.rodb
        /\ (~trace[1].err.nil /\ ~ConnectionLevelFailure(trace[1].err)) =>
              /\ Len(trace) = 1
              /\ ReturnsResultOf(1)
              /\ \A k \in 1..Len(trace) : trace[k].on # db.rwdb

C2_Witness ==
    /\ Returned(ReadNames)
    /\ Constructed
    /\ HasReplica
    /\ Len(trace) = 1
    /\ trace[1].on = db.rodb
    /\ trace[1].err.text = "sql: no rows in result set"
    /\ ret.err = trace[1].err

\* C3: a write on any handle is invoked on the primary exactly once and the
\* replica observes nothing.
C3_WriteOnlyOnPrimary ==
    (Returned(WriteNames) /\ Constructed) =>
        /\ Len(trace) = 1
        /\ trace[1].on = db.rwdb
        /\ SameCall(1)
        /\ ret.err = trace[1].err
        /\ \A k \in 1..Len(trace) : trace[k].on # db.rodb

C3_Witness ==
    /\ Returned({"Exec"})
    /\ Constructed
    /\ HasReplica
    /\ Len(trace) = 1
    /\ trace[1].on = db.rwdb
    /\ ConnectionLevelFailure(trace[1].err)

\* C4: a read on a handle without a replica invokes the primary exactly once
\* and returns that invocation's result, whatever the primary answers.
C4_ReadWithoutReplicaIsDirect ==
    (Returned(ReadNames) /\ Constructed /\ ~HasReplica) =>
        /\ Len(trace) = 1
        /\ trace[1].on = db.rwdb
        /\ SameCall(1)
        /\ ReturnsResultOf(1)

C6_CloseAttemptsBoth ==
    /\ (pc = "Close" /\ Constructed /\ HasReplica) =>
          /\ 0 \in pending \/ \E k \in 1..Len(trace) : trace[k].on = db.rwdb
          /\ 1 \in pending \/ \E k \in 1..Len(trace) : trace[k].on = db.rodb
    /\ (Returned({"Close"}) /\ Constructed /\ HasReplica) =>
          /\ Len(trace) = 2
          /\ {trace[1].on, trace[2].on} = {db.rwdb, db.rodb}
          /\ \A k \in 1..2 : trace[k].method = "Close"
          /\ Failed # {} => ~ret.err.nil

C6_Witness ==
    /\ Returned({"Close"})
    /\ Constructed
    /\ HasReplica
    /\ \E k \in 1..Len(trace) : trace[k].on = db.rwdb /\ trace[k].err.nil
    /\ \E k \in 1..Len(trace) : trace[k].on = db.rodb /\ ~trace[k].err.nil
    /\ ~ret.err.nil

\* C7: Ping on a handle with a replica pings both connections, the replica
\* also when the primary ping failed, and fails iff at least one ping failed.
C7_PingRunsBoth ==
    (Returned({"Ping"}) /\ Constructed /\ HasReplica) =>
        /\ Len(trace) = 2
        /\ {trace[1].on, trace[2].on} = {db.rwdb, db.rodb}
        /\ ~ret.err.nil <=> Failed # {}

\* the sql.Open invocation of DSN slot i, if Open made one
OpenOf(i) == {k \in 1..Len(trace) : trace[k].on.idx = i}

\* C8: when the primary open fails and the replica open succeeds, Open
\* reports the primary's open error and the caller gets no handle holding
\* the replica's connection.
C8_FailedOpenDiscardsReplica ==
    (Returned({"Open"})
        /\ (\E k \in OpenOf(0) : ~trace[k].err.nil)
        /\ (\E k \in OpenOf(1) : trace[k].err.nil)) =>
        /\ ~ret.err.nil
        /\ \E k \in OpenOf(0) : ret.err = trace[k].err
        /\ db.rodb = NilDB

\* a handle value is in the caller's hands
HandleReturned == pc \notin {"start", "Open"} /\ db # ZeroDB

\* C9: every handle returned by Open or WrapDatabaseConnection has
\* totalConnection 1 or 2, and 2 iff rodb is present.
C9_ConnectionCountMatchesReplica ==
    HandleReturned =>
        /\ db.totalConnection \in {1, 2}
        /\ db.totalConnection = 2 <=> db.rodb # NilDB

\* the DSN that starts at position from of s: up to the next ';' or the end
DsnAt(s, from, dsn) ==
    /\ ~Contains(dsn, ";")
    /\ SubSeq(s, from, from + Len(dsn) - 1) = dsn
    /\ \/ from + Len(dsn) - 1 = Len(s)
       \/ SubSeq(s, from + Len(dsn), from + Len(dsn)) = ";"

C11_WrapBuildsHandle ==
    call.name = "WrapDatabaseConnection" =>
        IF call.args[1] = NilDB
        THEN /\ pc = "panic"
             /\ db = ZeroDB
        ELSE /\ pc = "done"
             /\ db.rwdb = call.args[1]
             /\ db.rodb = call.args[2]
             /\ db.totalConnection \in {1, 2}
             /\ db.totalConnection = 2 <=> call.args[2] # NilDB

C11_Witness ==
    /\ call.name = "WrapDatabaseConnection"
    /\ pc = "done"
    /\ db.rwdb = WrapRW
    /\ db.rodb = WrapRO
    /\ db.totalConnection = 2

\* C12: on a handle from WrapDatabaseConnection(primary, nil), PingContext,
\* Exec, ReadWrite and Close act on the primary only, never dereference the
\* absent replica, and return no error when the primary operation succeeds.
C12_PrimaryOnlyLifecycle ==
    (db.rwdb = WrapRW /\ db.rodb = NilDB) =>
        /\ pc # "panic"
        /\ pending \subseteq {0}
        /\ \A k \in 1..Len(trace) : trace[k].on = db.rwdb
        /\ Returned({"PingContext", "Exec", "Close"}) =>
              /\ Len(trace) = 1
              /\ trace[1].err.nil => ret.err.nil
        /\ Returned({"ReadWrite"}) => ret.db = WrapRW

C12_Witness ==
    /\ db.rwdb = WrapRW
    /\ db.rodb = NilDB
    /\ Returned({"Close"})
    /\ Len(trace) = 1
    /\ trace[1].on = WrapRW
    /\ trace[1].err.nil
    /\ ret.err.nil

\* C13: PingContext returns nil iff the ping of at least one configured
\* connection succeeded.
C13_PingContextNilIffSomePingSucceeded ==
    (Returned({"PingContext"}) /\ Constructed) =>
        (ret.err.nil <=> \E k \in 1..Len(trace) : trace[k].err.nil)

\* C14: a read makes at most two physical invocations, the read target and
\* then at most once the primary, and a failure of the fallback, also a
\* connection-level one, is returned without a further retry.
C14_AtMostOneFallback ==
    (Returned(ReadNames) /\ Constructed) =>
        /\ Len(trace) \in {1, 2}
        /\ trace[1].on = (IF HasReplica THEN db.rodb ELSE db.rwdb)
        /\ Len(trace) = 2 =>
              /\ trace[2].on = db.rwdb
              /\ ReturnsResultOf(2)

C14_Witness ==
    /\ Returned(ReadNames)
    /\ Constructed
    /\ HasReplica
    /\ Len(trace) = 2
    /\ ConnectionLevelFailure(trace[2].err)
    /\ ret.err = trace[2].err

\* C15: no operation changes the handle once it is constructed, and a read
\* on a handle with a replica, also one issued right after a fallback, goes
\* to the replica first and falls back iff its own replica attempt failed
\* with a connection-level failure.
C15_HandleImmutableNoStickyFallback ==
    [][ /\ pc \notin {"start", "Open"} => db' = db
        /\ (pc = "idle" /\ pc' = "done" /\ call'.name \in ReadNames
              /\ Constructed /\ HasReplica) =>
              /\ trace'[1].on = db.rodb
              /\ Len(trace') = 2 <=> ConnectionLevelFailure(trace'[1].err) ]_vars

C15_Witness ==
    /\ afterFallback
    /\ Returned(ReadNames)
    /\ Constructed
    /\ HasReplica
    /\ Len(trace) = 1
    /\ trace[1].on = db.rodb
    /\ trace[1].err.nil

\* C16: isConnectionError is true exactly for the errors whose message holds
\* one of the six texts or that are a pq error with one of the fifteen codes,
\* and false for nil, "no rows", syntax errors, constraint violations and a
\* context cancellation.
C16_ClassifierExact ==
    pc = "classified" =>
        /\ ret.val = 1 <=> ConnectionLevelFailure(perr)
        /\ perr.nil => ret.val = 0
        /\ (~perr.pq /\ perr.text \in {"sql: no rows in result set",
                                       "syntax error at or near",
                                       "duplicate key value violates unique constraint",
                                       "context canceled",
                                       "context deadline exceeded"}) => ret.val = 0
        /\ (perr.pq /\ perr.code \in {"42601", "23505", "23503"}
              /\ perr.text \in {"syntax error at end of input",
                                "duplicate key value violates unique constraint"}) =>
              ret.val = 0

C16_Witness ==
    /\ pc = "classified"
    /\ perr = PqErr("53300", "sorry, too many clients already")
    /\ ret.val = 1

\* C17: QueryRow and QueryRowContext always return a row; it is the
\* primary's row iff the error in the read target's row is a connection-level
\* failure, and otherwise the read target's row, error included, with no
\* invocation of the primary.
C17_QueryRowFallsBackOnRowErr ==
    (Returned(RowNames) /\ Constructed) =>
        /\ Len(trace) >= 1
        /\ trace[1].on = (IF HasReplica THEN db.rodb ELSE db.rwdb)
        /\ IF ConnectionLevelFailure(trace[1].err)
           THEN /\ Len(trace) = 2
                /\ trace[2].on = db.rwdb
                /\ ret.val = 2
                /\ ret.err = trace[2].err
           ELSE /\ Len(trace) = 1
                /\ ret.val = 1
                /\ ret.err = trace[1].err

C17_Witness ==
    /\ Returned(RowNames)
    /\ Constructed
    /\ HasReplica
    /\ Len(trace) = 1
    /\ trace[1].on = db.rodb
    /\ trace[1].err.pq
    /\ trace[1].err.code = "42601"
    /\ ret.val = 1
    /\ ret.err = trace[1].err

\* C18: Prepare and PrepareContext prepare the query on the primary and, iff
\* the handle has a replica, on the replica, return after both prepares
\* finished, and return either the statement with exactly those sides
\* present or, if a prepare failed, the error and a nil statement.
C18_PrepareBothSides ==
    (Returned(PrepareNames) /\ Constructed) =>
        /\ pending = {}
        /\ Len(trace) = (IF HasReplica THEN 2 ELSE 1)
        /\ \E k \in 1..Len(trace) : trace[k].on = db.rwdb
        /\ HasReplica => \E k \in 1..Len(trace) : trace[k].on = db.rodb
        /\ \A k \in 1..Len(trace) :
              trace[k].method = call.name /\ trace[k].query = call.query
        /\ IF Failed = {}
           THEN /\ ret.val = 1
                /\ ret.err.nil
                /\ stmt.rwstmt \in 1..Len(trace)
                /\ trace[stmt.rwstmt].on = db.rwdb
                /\ stmt.rostmt # 0 <=> HasReplica
                /\ HasReplica => trace[stmt.rostmt].on = db.rodb
           ELSE /\ ret.val = 0
                /\ \E k \in Failed : ret.err = trace[k].err

C18_Witness ==
    /\ Returned(PrepareNames)
    /\ Constructed
    /\ HasReplica
    /\ stmt.rwstmt # 0
    /\ stmt.rostmt = 0
    /\ \E k \in Failed : trace[k].on = db.rodb
    /\ ret.val = 0
    /\ ~ret.err.nil

\* the physical invocations slot i of the fan-out made
SlotRuns(i) ==
    {k \in 1..Len(trace) :
        IF call.name = "Open" THEN trace[k].on.idx = i
        ELSE trace[k].on = (IF i = 0 THEN db.rwdb ELSE db.rodb)}

\* C19: the fan-out helper with N in {1, 2} runs every index 0..N-1 exactly
\* once, returns only after all of them finished, returns nil iff all
\* returned nil and otherwise one of the errors returned.
C19_FanOutRunsAllAndJoins ==
    /\ pc \in {"Open", "Close", "Prepare"} =>
          /\ db.totalConnection \in {1, 2}
          /\ pending \subseteq 0..(db.totalConnection - 1)
    /\ (Returned({"Open"}) \/ (Returned({"Close"} \cup PrepareNames) /\ Constructed)) =>
          /\ pending = {}
          /\ Len(trace) = db.totalConnection
          /\ \A i \in 0..(db.totalConnection - 1) : Cardinality(SlotRuns(i)) = 1
          /\ ret.err.nil <=> Failed = {}
          /\ ~ret.err.nil => \E k \in Failed : ret.err = trace[k].err

C19_Witness ==
    /\ Returned({"Open"})
    /\ db.totalConnection = 2
    /\ Len(trace) = 2
    /\ trace[1].on.idx = 1
    /\ Failed = {1, 2}
    /\ ret.err = trace[1].err

\* C20: PingContext returns only after every ping it started completed,
\* reads each result after it was written, and when it fails returns the
\* primary's ping error.
C20_PingContextJoinsBeforeReading ==
    (Returned({"PingContext"}) /\ Constructed) =>
        /\ pending = {}
        /\ Len(trace) = (IF HasReplica THEN 2 ELSE 1)
        /\ \E k \in 1..Len(trace) : trace[k].on = db.rwdb /\ errRWDB = trace[k].err
        /\ HasReplica =>
              \E k \in 1..Len(trace) : trace[k].on = db.rodb /\ errRODB = trace[k].err
        /\ ~ret.err.nil =>
              \E k \in 1..Len(trace) : trace[k].on = db.rwdb /\ ret.err = trace[k].err

C20_Witness ==
    /\ Returned({"PingContext"})
    /\ Constructed
    /\ HasReplica
    /\ Len(trace) = 2
    /\ trace[1].on = db.rodb
    /\ trace[2].on = db.rwdb
    /\ Failed = {1, 2}
    /\ ret.err = trace[2].err

\* the calls that reach the replica
ReplicaCalls ==
    {"Close", "Ping", "PingContext"} \cup PrepareNames \cup SetterNames \cup ReadNames

\* C21: on every handle Open returns, also the one returned with an error
\* when the replica open failed, and on every handle from
\* WrapDatabaseConnection, Close, Ping, PingContext, Prepare, the setters and
\* the reads call a method of the replica only when it is present: no
\* physical invocation is on a nil connection, no goroutine is started to
\* close or ping a nil replica, and none of these calls panics while the
\* primary is present.
C21_NeverDereferencesNilReplica ==
    (pc \notin {"start", "Open"} /\ call.name \in ReplicaCalls) =>
        /\ \A k \in 1..Len(trace) : trace[k].on # NilDB
        /\ (pc \in {"Close", "PingContext"} /\ db.rodb = NilDB) => pending \subseteq {0}
        /\ pc = "panic" => db.rwdb = NilDB

====
